---------------------------- MODULE Spec2Model ----------------------------
(***************************************************************************)
(* kubesnoop rule evaluation: the condition evaluator, the path extractor *)
(* as the evaluator uses it (gjson), the per-type resource evaluators and  *)
(* the orchestrator EvaluateClusterInfo, together with the rule store the  *)
(* evaluator reads.                                                        *)
(***************************************************************************)
EXTENDS Integers, Sequences, FiniteSets, TLC

(***************************************************************************)
(* Go strings package, on TLA+ strings.                                    *)
(***************************************************************************)
CharAt(s, i) == SubSeq(s, i, i)

\* Substring from position i (1-based) to the end; "" past the end.
From(s, i) == IF i > Len(s) THEN "" ELSE SubSeq(s, i, Len(s))

\* Prefix of length n.
Upto(s, n) == IF n <= 0 THEN "" ELSE SubSeq(s, 1, n)

\* strings.Index, 1-based; 0 when substr does not occur.
Index(s, substr) ==
    IF Len(substr) = 0 THEN 1
    ELSE LET hits == { i \in 1..(Len(s) - Len(substr) + 1) :
                          SubSeq(s, i, i + Len(substr) - 1) = substr }
         IN  IF hits = {} THEN 0
             ELSE CHOOSE i \in hits : \A j \in hits : i <= j

\* strings.Contains
Contains(s, substr) == Index(s, substr) # 0

\* strings.HasSuffix
HasSuffix(s, suffix) ==
    /\ Len(s) >= Len(suffix)
    /\ From(s, Len(s) - Len(suffix) + 1) = suffix

RECURSIVE TrimLeft(_, _)
TrimLeft(s, cutset) ==
    IF Len(s) > 0 /\ Contains(cutset, CharAt(s, 1))
    THEN TrimLeft(From(s, 2), cutset)
    ELSE s

RECURSIVE TrimRight(_, _)
TrimRight(s, cutset) ==
    IF Len(s) > 0 /\ Contains(cutset, CharAt(s, Len(s)))
    THEN TrimRight(Upto(s, Len(s) - 1), cutset)
    ELSE s

\* strings.Trim(s, cutset)
Trim(s, cutset) == TrimRight(TrimLeft(s, cutset), cutset)

WhiteSpace == " \t\n\r"

\* strings.TrimSpace
TrimSpace(s) == Trim(s, WhiteSpace)

\* strings.SplitN(s, sep, 2)
SplitN2(s, sep) ==
    LET i == Index(s, sep)
    IN  IF i = 0 THEN << s >>
        ELSE << Upto(s, i - 1), From(s, i + Len(sep)) >>

UpperCase == "ABCDEFGHIJKLMNOPQRSTUVWXYZ"
LowerCase == "abcdefghijklmnopqrstuvwxyz"

RECURSIVE ToLower(_)
ToLower(s) ==
    IF Len(s) = 0 THEN ""
    ELSE LET c == CharAt(s, 1)
             i == Index(UpperCase, c)
         IN  (IF i = 0 THEN c ELSE CharAt(LowerCase, i)) \o ToLower(From(s, 2))

Digits == "0123456789"

\* strconv.Itoa
RECURSIVE Itoa(_)
Itoa(n) ==
    IF n < 0 THEN "-" \o Itoa(0 - n)
    ELSE IF n < 10 THEN CharAt(Digits, n + 1)
    ELSE Itoa(n \div 10) \o CharAt(Digits, (n % 10) + 1)


(***************************************************************************)
(* JSON documents and gjson.Result.  A value is a record with a tag t:     *)
(* "Absent" (the zero Result of a path that does not resolve), "Null",     *)
(* "True", "False", "Number" (n), "String" (s), "Array" (e, the elements)  *)
(* and "Object" (e, the members as <<key, value>> in document order).      *)
(***************************************************************************)
Absent  == [t |-> "Absent", n |-> 0, s |-> "", e |-> << >>]
JNull   == [t |-> "Null",   n |-> 0, s |-> "", e |-> << >>]
JTrue   == [t |-> "True",   n |-> 0, s |-> "", e |-> << >>]
JFalse  == [t |-> "False",  n |-> 0, s |-> "", e |-> << >>]
JBool(b) == IF b THEN JTrue ELSE JFalse
JNum(i) == [t |-> "Number", n |-> i, s |-> "", e |-> << >>]
JStr(x) == [t |-> "String", n |-> 0, s |-> x,  e |-> << >>]
JArr(x) == [t |-> "Array",  n |-> 0, s |-> "", e |-> x]
JObj(m) == [t |-> "Object", n |-> 0, s |-> "", e |-> m]

\* Result.Raw: the JSON text of the value, as encoding/json writes it.
RECURSIVE Raw(_)
RECURSIVE RawList(_, _)
Raw(v) ==
    CASE v.t = "Absent" -> ""
      [] v.t = "Null"   -> "null"
      [] v.t = "True"   -> "true"
      [] v.t = "False"  -> "false"
      [] v.t = "Number" -> Itoa(v.n)
      [] v.t = "String" -> "\"" \o v.s \o "\""
      [] v.t = "Array"  -> "[" \o RawList(v, 1) \o "]"
      [] v.t = "Object" -> "{" \o RawList(v, 1) \o "}"

RawList(v, i) ==
    IF i > Len(v.e) THEN ""
    ELSE (IF i > 1 THEN "," ELSE "")
         \o (IF v.t = "Object"
             THEN "\"" \o v.e[i][1] \o "\":" \o Raw(v.e[i][2])
             ELSE Raw(v.e[i]))
         \o RawList(v, i + 1)

\* Result.Exists: Type != Null || len(Raw) != 0
Exists(v) == v.t # "Absent"

\* Result.String
String(v) ==
    CASE v.t \in {"Absent", "Null"} -> ""
      [] v.t = "True"   -> "true"
      [] v.t = "False"  -> "false"
      [] v.t = "Number" -> Itoa(v.n)
      [] v.t = "String" -> v.s
      [] OTHER          -> Raw(v)

\* strconv.ParseBool of an already lower-cased text
ParseBool(x) == x \in {"1", "t", "true"}

\* Result.Bool
Bool(v) ==
    CASE v.t = "True"   -> TRUE
      [] v.t = "String" -> ParseBool(ToLower(v.s))
      [] v.t = "Number" -> v.n # 0
      [] OTHER          -> FALSE

\* gjson parseInt: a decimal integer text, else 0
RECURSIVE parseUint(_, _)
parseUint(x, acc) ==
    IF Len(x) = 0 THEN acc
    ELSE LET d == Index(Digits, CharAt(x, 1))
         IN  IF d = 0 THEN -1
             ELSE LET r == parseUint(From(x, 2), acc * 10 + (d - 1))
                  IN  r

parseInt(x) ==
    IF Len(x) = 0 THEN 0
    ELSE LET neg  == CharAt(x, 1) = "-"
             body == IF neg THEN From(x, 2) ELSE x
             u    == IF Len(body) = 0 THEN -1 ELSE parseUint(body, 0)
         IN  IF u < 0 THEN 0 ELSE IF neg THEN 0 - u ELSE u

\* Result.Int
IntOf(v) ==
    CASE v.t = "True"   -> 1
      [] v.t = "String" -> parseInt(v.s)
      [] v.t = "Number" -> v.n
      [] OTHER          -> 0

\* Result.IsArray / Result.IsObject
IsArray(v)  == v.t = "Array"
IsObject(v) == v.t = "Object"

\* Result.Array: the elements of an array, nothing for null or absent,
\* and a one-element array holding the value otherwise.
ArrayOf(v) ==
    CASE v.t = "Array"              -> v.e
      [] v.t \in {"Absent", "Null"} -> << >>
      [] OTHER                      -> << v >>

\* Result.Map: the members of an object, none for any other value.
MapOf(v) == IF v.t = "Object" THEN v.e ELSE << >>

\* match.Match: key against a pattern with the wildcards * and ?
RECURSIVE Match(_, _)
Match(str, pattern) ==
    IF Len(pattern) = 0 THEN Len(str) = 0
    ELSE LET p == CharAt(pattern, 1)
         IN  IF p = "*"
             THEN \/ Match(str, From(pattern, 2))
                  \/ (Len(str) > 0 /\ Match(From(str, 2), pattern))
             ELSE /\ Len(str) > 0
                  /\ (p = "?" \/ p = CharAt(str, 1))
                  /\ Match(From(str, 2), From(pattern, 2))

IsIndex(part) ==
    /\ Len(part) > 0
    /\ \A i \in 1..Len(part) : Contains(Digits, CharAt(part, i))

RECURSIVE Collect(_, _, _)
RECURSIVE Get(_, _)

\* gjson.Get(json, path): the path is a series of keys separated by dots.
\* A key selects the member of an object whose name equals it (or matches
\* it, when the key holds a wildcard); a number selects an array element;
\* "#" is the length of an array and "#.rest" collects rest from every
\* element in which it resolves.  Anything else does not resolve.
Get(v, path) ==
    LET dot  == Index(path, ".")
        part == IF dot = 0 THEN path ELSE Upto(path, dot - 1)
        more == dot # 0
        rest == IF dot = 0 THEN "" ELSE From(path, dot + 1)
        wild == Contains(part, "*") \/ Contains(part, "?")
        hit(i) == LET m == v.e[i]
                     pm == IF wild THEN Match(m[1], part) ELSE m[1] = part
                  IN  pm /\ (more => Exists(Get(m[2], rest)))
    IN  CASE v.t = "Object" ->
               LET hits == { i \in 1..Len(v.e) : hit(i) }
               IN  IF hits = {} THEN Absent
                   ELSE LET i == CHOOSE i \in hits : \A j \in hits : i <= j
                        IN  IF more THEN Get(v.e[i][2], rest) ELSE v.e[i][2]
          [] v.t = "Array" ->
               IF part = "#"
               THEN IF more THEN JArr(Collect(v.e, rest, 1))
                    ELSE JNum(Len(v.e))
               ELSE IF IsIndex(part) /\ parseInt(part) < Len(v.e)
               THEN LET el == v.e[parseInt(part) + 1]
                    IN  IF more THEN Get(el, rest) ELSE el
               ELSE Absent
          [] OTHER -> Absent

Collect(elems, rest, i) ==
    IF i > Len(elems) THEN << >>
    ELSE LET r == Get(elems[i], rest)
         IN  (IF Exists(r) THEN << r >> ELSE << >>) \o Collect(elems, rest, i + 1)

(***************************************************************************)
(* The condition evaluator and evaluateRule.                               *)
(***************************************************************************)
Pass == [passed |-> TRUE, message |-> ""]
Fail(description) == [passed |-> FALSE, message |-> description]

\* evaluateEquals with the tests of the literals true and false exchanged.
evaluateEqualsSwapped(value, cond, description) ==
    LET parts    == SplitN2(cond, "==")
        expected == TrimSpace(parts[2])
        actual   == String(value)
    IN  IF Len(parts) # 2 THEN Pass
        ELSE IF expected = "true"
             THEN (IF ~Bool(value) THEN Fail(description) ELSE Pass)
        ELSE IF expected = "false"
             THEN (IF Bool(value) THEN Fail(description) ELSE Pass)
        ELSE IF expected = "null"
             THEN (IF ~Exists(value) THEN Fail(description) ELSE Pass)
        ELSE IF expected = "'default'" \/ expected = "\"default\""
             THEN (IF actual = "default" \/ actual = ""
                   THEN Fail(description) ELSE Pass)
        ELSE IF expected = "0"
             THEN (IF IntOf(value) = 0 THEN Fail(description) ELSE Pass)
        ELSE IF Trim(expected, "'\"") = actual THEN Fail(description)
        ELSE Pass

\* evaluateEquals comparing the literal with its quotes left on.
evaluateEqualsQuoted(value, cond, description) ==
    LET parts    == SplitN2(cond, "==")
        expected == TrimSpace(parts[2])
        actual   == String(value)
    IN  IF Len(parts) # 2 THEN Pass
        ELSE IF expected = "true"
             THEN (IF Bool(value) THEN Fail(description) ELSE Pass)
        ELSE IF expected = "false"
             THEN (IF ~Bool(value) THEN Fail(description) ELSE Pass)
        ELSE IF expected = "null"
             THEN (IF ~Exists(value) THEN Fail(description) ELSE Pass)
        ELSE IF expected = "'default'" \/ expected = "\"default\""
             THEN (IF actual = "default" \/ actual = ""
                   THEN Fail(description) ELSE Pass)
        ELSE IF expected = "0"
             THEN (IF IntOf(value) = 0 THEN Fail(description) ELSE Pass)
        ELSE IF expected = actual THEN Fail(description)
        ELSE Pass

\* The `==` recognizer: the text right of the first "==" against the value.
evaluateEquals(value, cond, description) ==
    LET parts    == SplitN2(cond, "==")
        expected == TrimSpace(parts[2])
        actual   == String(value)
    IN  IF Len(parts) # 2 THEN Pass
        ELSE IF expected = "true"
             THEN (IF Bool(value) THEN Fail(description) ELSE Pass)
        ELSE IF expected = "false"
             THEN (IF ~Bool(value) THEN Fail(description) ELSE Pass)
        ELSE IF expected = "null"
             THEN (IF ~Exists(value) THEN Fail(description) ELSE Pass)
        ELSE IF expected = "'default'" \/ expected = "\"default\""
             THEN (IF actual = "default" \/ actual = ""
                   THEN Fail(description) ELSE Pass)
        ELSE IF expected = "0"
             THEN (IF IntOf(value) = 0 THEN Fail(description) ELSE Pass)
        ELSE IF Trim(expected, "'\"") = actual THEN Fail(description)
        ELSE Pass

\* unrecognized, reporting a condition it cannot read as a failure.
unrecognizedFails(description) == Fail(description)

\* A condition no recognizer takes: return true, "".
unrecognized(description) == Pass

\* evaluateCondition trying the recognizers from the last to the first.
evaluateConditionReversed(value, condition, description) ==
    LET cond == TrimSpace(condition)
    IN  IF cond = "null OR empty"
        THEN (IF ~Exists(value) \/ (IsObject(value) /\ Len(MapOf(value)) = 0)
              THEN Fail(description) ELSE Pass)
        ELSE IF Contains(cond, "count == 0")
        THEN (IF IsArray(value) /\ Len(ArrayOf(value)) = 0
              THEN Fail(description) ELSE Pass)
        ELSE IF Contains(cond, "NOT contains")
        THEN (IF Contains(cond, ":") /\ ~Contains(String(value), ":")
              THEN Fail(description) ELSE Pass)
        ELSE IF Contains(cond, "endsWith")
        THEN (IF Contains(cond, ":latest") /\ HasSuffix(String(value), ":latest")
              THEN Fail(description) ELSE Pass)
        ELSE IF Contains(cond, "null OR")
        THEN (IF ~Exists(value) THEN Fail(description)
              ELSE IF Contains(cond, "== 0") /\ IntOf(value) = 0
                   THEN Fail(description)
              ELSE Pass)
        ELSE IF Contains(cond, "==")
        THEN evaluateEquals(value, cond, description)
        ELSE unrecognized(description)

evaluateCondition(value, condition, description) ==
    LET cond == TrimSpace(condition)
    IN  IF Contains(cond, "==")
        THEN evaluateEquals(value, cond, description)
        ELSE IF Contains(cond, "null OR")
        THEN (IF ~Exists(value) THEN Fail(description)
              ELSE IF Contains(cond, "== 0") /\ IntOf(value) = 0
                   THEN Fail(description)
              ELSE Pass)
        ELSE IF Contains(cond, "endsWith")
        THEN (IF Contains(cond, ":latest") /\ HasSuffix(String(value), ":latest")
              THEN Fail(description) ELSE Pass)
        ELSE IF Contains(cond, "NOT contains")
        THEN (IF Contains(cond, ":") /\ ~Contains(String(value), ":")
              THEN Fail(description) ELSE Pass)
        ELSE IF Contains(cond, "count == 0")
        THEN (IF IsArray(value) /\ Len(ArrayOf(value)) = 0
              THEN Fail(description) ELSE Pass)
        ELSE IF cond = "null OR empty"
        THEN (IF ~Exists(value) \/ (IsObject(value) /\ Len(MapOf(value)) = 0)
              THEN Fail(description) ELSE Pass)
        ELSE unrecognized(description)

\* notApplicable with the test of "null" the wrong way round.
notApplicableInverted(value, condition) ==
    ~Exists(value) /\ Contains(condition, "null")

\* The not-applicable test of evaluateRule.
notApplicable(value, condition) ==
    ~Exists(value) /\ ~Contains(condition, "null")

\* evaluateRule(rule, jsonData, resourceName): a RuleResult
evaluateRule(rule, jsonData, resourceName) ==
    LET gjsonResult == Get(jsonData, rule.Query)
    IN  IF notApplicable(gjsonResult, rule.Condition)
        THEN [Rule |-> rule, Resource |-> resourceName, Passed |-> TRUE,
              Message |-> "", Value |-> Absent]
        ELSE LET r == evaluateCondition(gjsonResult, rule.Condition,
                                        rule.Description)
             IN  [Rule |-> rule, Resource |-> resourceName,
                  Passed |-> r.passed, Message |-> r.message,
                  Value |-> gjsonResult]

(***************************************************************************)
(* Bounds of the model.                                                    *)
(***************************************************************************)
\* Numbers 0..MaxNum occur as document values.
MaxNum == 2
\* Evaluation runs (runOnce) in one behaviour.
MaxRuns == 2
\* Rule store operations (add, delete) in one behaviour.
MaxOps == 2

(***************************************************************************)
(* Rules.  SecurityRule as the store returns it.                           *)
(***************************************************************************)
SecurityRule(name, category, severity, description, remediation, ruleType, query, condition, tags) ==
    [ID |-> 0, Name |-> name, Category |-> category, Severity |-> severity,
     Description |-> description, Remediation |-> remediation,
     RuleType |-> ruleType, Query |-> query, Condition |-> condition,
     Enabled |-> TRUE, Tags |-> tags]

\* loadDefaultRules: the nine rules of a fresh database, in insertion order.
defaultRules ==
    << SecurityRule("privileged-container", "Container Security", "HIGH",
         "Container is running in privileged mode",
         "Remove privileged: true from container security context",
         "pod", "$.containers[*].securityContext.privileged", "== true",
         "cis,nist,privileged"),
       SecurityRule("root-user-container", "Container Security", "MEDIUM",
         "Container may be running as root user",
         "Set runAsNonRoot: true and runAsUser to non-zero value",
         "pod", "$.containers[*].securityContext.runAsUser", "== 0 OR null",
         "cis,root,user"),
       SecurityRule("no-resource-limits", "Resource Management", "MEDIUM",
         "Container has no resource limits defined",
         "Set CPU and memory limits to prevent resource exhaustion",
         "pod", "$.containers[*].resources.limits", "null OR empty",
         "resources,limits"),
       SecurityRule("latest-image-tag", "Image Security", "LOW",
         "Container uses 'latest' tag or no tag specified",
         "Use specific image tags for reproducible deployments",
         "pod", "$.containers[*].image",
         "endsWith ':latest' OR NOT contains ':'",
         "image,tags,reproducibility"),
       SecurityRule("host-network-usage", "Host Security", "HIGH",
         "Pod uses host network namespace",
         "Avoid hostNetwork unless absolutely necessary",
         "pod", "$.hostNetwork", "== true", "host,network,isolation"),
       SecurityRule("nodeport-service", "Network Security", "MEDIUM",
         "Service uses NodePort type which exposes ports on all nodes",
         "Consider using ClusterIP or LoadBalancer instead",
         "service", "$.type", "== 'NodePort'", "network,exposure"),
       SecurityRule("wildcard-rbac-permissions", "RBAC", "HIGH",
         "Role has wildcard permissions (*/*)",
         "Use least-privilege principle and specify exact resources and verbs",
         "rbac", "$.rules[*].resources[*]", "== '*'",
         "rbac,wildcard,permissions"),
       SecurityRule("default-service-account", "RBAC", "LOW",
         "Pod uses default service account",
         "Create and use dedicated service accounts for applications",
         "pod", "$.serviceAccount", "== 'default' OR == '' OR null",
         "rbac,service-account"),
       SecurityRule("no-network-policies", "Network Security", "MEDIUM",
         "Namespace has no network policies - all traffic allowed by default",
         "Implement network policies to restrict pod-to-pod communication",
         "namespace", "$.networkPolicies", "count == 0",
         "network,policies,segmentation") >>

\* Rules an operator adds with `rules add`: the documented Scenario B rule
\* and rules whose queries are paths of the marshalled documents.
customRules ==
    << SecurityRule("host-network", "Host Security", "HIGH",
         "Pod shares the host network", "Unset hostNetwork",
         "pod", "host_network", "== true", "host"),
       SecurityRule("default-sa", "RBAC", "LOW",
         "Pod runs as the default service account", "Use a dedicated account",
         "pod", "service_account", "== 'default'", "rbac"),
       SecurityRule("nodeport", "Network Security", "MEDIUM",
         "Service is of type NodePort", "Use ClusterIP",
         "service", "type", "== 'NodePort'", "network"),
       SecurityRule("wildcard-resources", "RBAC", "HIGH",
         "Role grants every resource", "Name the resources",
         "rbac", "rules.0.resources.0", "== '*'", "rbac"),
       SecurityRule("netpol-count", "Network Security", "MEDIUM",
         "Namespace has no network policy", "Add a network policy",
         "namespace", "networkPolicies", "count == 0", "network"),
       SecurityRule("latest-tag", "Image Security", "LOW",
         "Container image is tagged latest", "Pin the image tag",
         "pod", "$.containers[*].image", "endsWith ':latest'", "image") >>

(***************************************************************************)
(* Collected resources and their JSON form (encoding/json over the struct  *)
(* tags of the collector's types; omitempty members that are empty in the  *)
(* model are left out, a nil slice without omitempty is written as null).  *)
(***************************************************************************)
MarshalList(xs) == IF Len(xs) = 0 THEN JNull ELSE JArr(xs)

MarshalStrings(xs) == MarshalList([i \in 1..Len(xs) |-> JStr(xs[i])])

\* ContainerInfo
MarshalContainer(c) ==
    JObj(<< <<"name", JStr(c.Name)>>, <<"image", JStr(c.Image)>>,
            <<"resources", JObj(<< >>)>> >>)

\* PodInfo (security_context is written only when the pod has one)
MarshalPod(pod) ==
    JObj(<< <<"name", JStr(pod.Name)>>,
            <<"namespace", JStr(pod.Namespace)>>,
            <<"service_account", JStr(pod.ServiceAccount)>> >>
         \o (IF pod.SecurityContext
             THEN << <<"security_context", JObj(<< >>)>> >> ELSE << >>)
         \o << <<"containers", MarshalList([i \in 1..Len(pod.Containers) |->
                                MarshalContainer(pod.Containers[i])])>>,
            <<"phase", JStr("Running")>>,
            <<"host_network", JBool(pod.HostNetwork)>>,
            <<"host_pid", JFalse>>,
            <<"host_ipc", JFalse>> >>)

\* ServiceInfo
MarshalService(service) ==
    JObj(<< <<"name", JStr(service.Name)>>,
            <<"namespace", JStr(service.Namespace)>>,
            <<"type", JStr(service.Type)>> >>)

\* rbacv1.PolicyRule
MarshalPolicyRule(r) ==
    JObj(<< <<"verbs", MarshalStrings(r.Verbs)>> >>
         \o (IF Len(r.Resources) = 0 THEN << >>
             ELSE << <<"resources", MarshalStrings(r.Resources)>> >>))

\* rbacv1.ClusterRole and rbacv1.Role (Namespace "" for a cluster role)
MarshalRole(role) ==
    JObj(<< <<"metadata",
              JObj(<< <<"name", JStr(role.Name)>> >>
                   \o (IF role.Namespace = "" THEN << >>
                       ELSE << <<"namespace", JStr(role.Namespace)>> >>)
                   \o << <<"creationTimestamp", JNull>> >>)>>,
            <<"rules", MarshalList([i \in 1..Len(role.Rules) |->
                           MarshalPolicyRule(role.Rules[i])])>> >>)

\* NetworkPolicyInfo
MarshalNetworkPolicy(policy) ==
    JObj(<< <<"name", JStr(policy.Name)>>,
            <<"namespace", JStr(policy.Namespace)>>,
            <<"spec", JObj(<< <<"podSelector", JObj(<< >>)>> >>)>> >>)

\* The namespace document: NamespaceInfo with the joined policies.
MarshalNamespace(ns, policies) ==
    JObj(<< <<"name", JStr(ns.Name)>>,
            <<"phase", JStr("Active")>>,
            <<"networkPolicies", MarshalList([i \in 1..Len(policies) |->
                                     MarshalNetworkPolicy(policies[i])])>> >>)

(***************************************************************************)
(* The per-type evaluators.                                                *)
(***************************************************************************)
\* SecurityFinding taking the message from the rule's remediation.
SecurityFindingMixed(rule, resourceName, result) ==
    [Severity |-> rule.Severity, Category |-> rule.Category,
     Resource |-> resourceName, Message |-> rule.Remediation,
     Remediation |-> rule.Remediation]

SecurityFinding(rule, resourceName, result) ==
    [Severity |-> rule.Severity, Category |-> rule.Category,
     Resource |-> resourceName, Message |-> result.Message,
     Remediation |-> rule.Remediation]

\* evaluateRules leaving the loop at the first rule that does not pass.
RECURSIVE evaluateRulesFirstOnly(_, _, _, _)
evaluateRulesFirstOnly(rules, data, resourceName, i) ==
    IF i > Len(rules) THEN << >>
    ELSE LET result == evaluateRule(rules[i], data, resourceName)
         IN  IF ~result.Passed
             THEN << SecurityFinding(rules[i], resourceName, result) >>
             ELSE evaluateRulesFirstOnly(rules, data, resourceName, i + 1)

\* The inner loop of every evaluator: the rules, in order, on one document.
RECURSIVE evaluateRules(_, _, _, _)
evaluateRules(rules, data, resourceName, i) ==
    IF i > Len(rules) THEN << >>
    ELSE LET result == evaluateRule(rules[i], data, resourceName)
         IN  (IF ~result.Passed
              THEN << SecurityFinding(rules[i], resourceName, result) >>
              ELSE << >>)
             \o evaluateRules(rules, data, resourceName, i + 1)

PodName(pod) == "Pod/" \o pod.Namespace \o "/" \o pod.Name
ServiceName(service) == "Service/" \o service.Namespace \o "/" \o service.Name
ClusterRoleName(role) == "ClusterRole/" \o role.Name
RoleName(role) == "Role/" \o role.Namespace \o "/" \o role.Name
NamespaceName(ns) == "Namespace/" \o ns.Name

\* Document taking the document of a resource Marshal failed on.
DocumentAnyway(resource, resourceName, data) ==
    << [Resource |-> resourceName, Data |-> data] >>

\* What an evaluator has after json.Marshal of a resource: the resource
\* identifier and the document, or nothing when Marshal returned an error.
Document(resource, resourceName, data) ==
    IF resource.MarshalErr THEN << >>
    ELSE << [Resource |-> resourceName, Data |-> data] >>

\* The rules on the documents, in order; a resource without a document is
\* passed over (continue).
RECURSIVE evaluateDocuments(_, _, _)
evaluateDocuments(rules, documents, i) ==
    IF i > Len(documents) THEN << >>
    ELSE evaluateRules(rules, documents[i].Data, documents[i].Resource, 1)
         \o evaluateDocuments(rules, documents, i + 1)

RECURSIVE podDocuments(_, _)
podDocuments(pods, i) ==
    IF i > Len(pods) THEN << >>
    ELSE Document(pods[i], PodName(pods[i]), MarshalPod(pods[i]))
         \o podDocuments(pods, i + 1)

evaluatePods(rules, pods, i) ==
    evaluateDocuments(rules, podDocuments(pods, i), 1)

RECURSIVE serviceDocuments(_, _)
serviceDocuments(services, i) ==
    IF i > Len(services) THEN << >>
    ELSE Document(services[i], ServiceName(services[i]),
                  MarshalService(services[i]))
         \o serviceDocuments(services, i + 1)

evaluateServices(rules, services, i) ==
    evaluateDocuments(rules, serviceDocuments(services, i), 1)

RECURSIVE clusterRoleDocuments(_, _)
clusterRoleDocuments(roles, i) ==
    IF i > Len(roles) THEN << >>
    ELSE Document(roles[i], ClusterRoleName(roles[i]), MarshalRole(roles[i]))
         \o clusterRoleDocuments(roles, i + 1)

evaluateClusterRoles(rules, roles, i) ==
    evaluateDocuments(rules, clusterRoleDocuments(roles, i), 1)

RECURSIVE roleDocuments(_, _)
roleDocuments(roles, i) ==
    IF i > Len(roles) THEN << >>
    ELSE Document(roles[i], RoleName(roles[i]), MarshalRole(roles[i]))
         \o roleDocuments(roles, i + 1)

evaluateRoles(rules, roles, i) ==
    evaluateDocuments(rules, roleDocuments(roles, i), 1)

rbacDocuments(rbac) ==
    clusterRoleDocuments(rbac.ClusterRoles, 1) \o roleDocuments(rbac.Roles, 1)

evaluateRBAC(rules, rbac) ==
    evaluateClusterRoles(rules, rbac.ClusterRoles, 1)
    \o evaluateRoles(rules, rbac.Roles, 1)

\* namespacePolicies with every policy under every namespace.
namespacePoliciesUnkeyed(policies, name) == policies

\* namespacePolicies[name]: the policies of a namespace, in collection order.
namespacePolicies(policies, name) ==
    SelectSeq(policies, LAMBDA policy : policy.Namespace = name)

RECURSIVE namespaceDocuments(_, _, _)
namespaceDocuments(namespaces, policies, i) ==
    IF i > Len(namespaces) THEN << >>
    ELSE Document(namespaces[i], NamespaceName(namespaces[i]),
                  MarshalNamespace(namespaces[i],
                      namespacePolicies(policies, namespaces[i].Name)))
         \o namespaceDocuments(namespaces, policies, i + 1)

evaluateNamespaces(rules, namespaces, policies, i) ==
    evaluateDocuments(rules, namespaceDocuments(namespaces, policies, i), 1)

(***************************************************************************)
(* Inputs: the snapshots CollectAll can return and the stores a database   *)
(* file can hold when the program starts.                                  *)
(***************************************************************************)
Container(name, image) == [Name |-> name, Image |-> image]

PodWeb == [Name |-> "web", Namespace |-> "prod", ServiceAccount |-> "default",
           SecurityContext |-> TRUE, HostNetwork |-> TRUE,
           Containers |-> << Container("nginx", "nginx:latest") >>,
           MarshalErr |-> FALSE]
PodApi == [Name |-> "api", Namespace |-> "dev", ServiceAccount |-> "app",
           SecurityContext |-> FALSE, HostNetwork |-> FALSE,
           Containers |-> << Container("nginx", "nginx:1.25") >>,
           MarshalErr |-> FALSE]
\* A pod json.Marshal returns an error for.
PodJob == [Name |-> "job", Namespace |-> "dev", ServiceAccount |-> "default",
           SecurityContext |-> TRUE, HostNetwork |-> TRUE,
           Containers |-> << Container("job", "busybox:latest") >>,
           MarshalErr |-> TRUE]

SvcEdge == [Name |-> "edge", Namespace |-> "prod", Type |-> "NodePort",
            MarshalErr |-> FALSE]
SvcDb   == [Name |-> "db", Namespace |-> "dev", Type |-> "ClusterIP",
            MarshalErr |-> FALSE]

RoleAdmin  == [Name |-> "admin", Namespace |-> "",
               Rules |-> << [Verbs |-> << "*" >>, Resources |-> << "*" >>] >>,
               MarshalErr |-> FALSE]
RoleOps    == [Name |-> "ops", Namespace |-> "prod",
               Rules |-> << [Verbs |-> << "get" >>, Resources |-> << "*" >>] >>,
               MarshalErr |-> FALSE]
RoleReader == [Name |-> "reader", Namespace |-> "dev",
               Rules |-> << [Verbs |-> << "get" >>, Resources |-> << "pods" >>] >>,
               MarshalErr |-> FALSE]

NsProd == [Name |-> "prod", MarshalErr |-> FALSE]
NsDev  == [Name |-> "dev", MarshalErr |-> FALSE]
\* A namespace json.Marshal returns an error for.
NsOps  == [Name |-> "ops", MarshalErr |-> TRUE]
PolicyDeny  == [Name |-> "deny-all", Namespace |-> "prod"]
PolicyAllow == [Name |-> "allow-dns", Namespace |-> "dev"]
PolicyWeb   == [Name |-> "web-ingress", Namespace |-> "prod"]

ClusterInfo(pods, services, clusterRoles, roles, namespaces, policies) ==
    [Pods |-> pods, Services |-> services,
     RBAC |-> [ClusterRoles |-> clusterRoles, Roles |-> roles],
     Namespaces |-> namespaces, NetworkPolicies |-> policies]

EmptyInfo == ClusterInfo(<< >>, << >>, << >>, << >>, << >>, << >>)

Snapshots ==
    { ClusterInfo(<< PodWeb, PodApi >>, << SvcEdge, SvcDb >>, << RoleAdmin >>,
                  << RoleOps, RoleReader >>, << NsProd, NsDev >>,
                  << PolicyDeny, PolicyAllow, PolicyWeb >>),
      ClusterInfo(<< PodApi, PodJob, PodWeb >>, << SvcEdge >>, << >>,
                  << RoleOps >>, << NsDev, NsOps, NsProd >>, << >>),
      EmptyInfo }

\* The rows of security_rules after inserting rules into an empty table.
Rows(rules) == [i \in 1..Len(rules) |-> [rules[i] EXCEPT !.ID = i]]

InitStores == { Rows(defaultRules), Rows(customRules) }

\* The rules `rules add` is given, and the ids `rules delete` is given.
AddInputs == { customRules[1], defaultRules[3] }
DeleteInputs == { 1, 3 }
\* The rules and ids UpdateRuleByID is given.
UpdateInputs == { customRules[2], [defaultRules[3] EXCEPT !.Enabled = FALSE] }
UpdateIDs == { 1, 2 }
\* The files `rules import` is given: a new rule, and stored rules edited;
\* the last has rules before and behind a rule `rules toggle` can disable.
NewRule ==
    SecurityRule("host-pid", "Host Security", "HIGH", "Pod shares the host PID namespace", "Unset hostPID", "pod", "host_pid", "== true", "host")
ImportFiles ==
    { << NewRule, [customRules[1] EXCEPT !.Severity = "CRITICAL"] >>,
      << [defaultRules[3] EXCEPT !.Severity = "HIGH"], customRules[2] >>,
      << NewRule, [defaultRules[3] EXCEPT !.Severity = "HIGH"],
         customRules[2] >> }
\* The types `rules list` is given, "" for none.
ListTypes == { "", "pod" }
\* The ids `rules toggle` is given.
EnableInputs == { 3 }

(***************************************************************************)
(* State.                                                                  *)
(***************************************************************************)
VARIABLES
    store,     \* security_rules: the rows in rowid order
    nextID,    \* the AUTOINCREMENT counter of security_rules
    info,      \* the ClusterInfo of the running or last collection
    pc,        \* where runOnce stands
    findings,  \* EvaluateClusterInfo's findings
    evalErr,   \* the error EvaluateClusterInfo returns, "" for nil
    output,    \* what runOnce last gave to outputResult
    runCount,  \* evaluation runs started
    opCount,   \* store operations done
    started,   \* the store when the running evaluation started
    dirty,     \* whether the store was written to during the evaluation
    log,       \* the last completed runs: input, store, outcome
    cRule,     \* evaluateRule taken alone: its rule,
    cData,     \*   its document,
    cDone,     \*   whether it was called,
    cResult,   \*   and the RuleResult it returned
    lastCmd,   \* the store operation or `rules` command that ran last
    lastErr,   \* the error it returned, "" for nil
    listed,    \* the rules the last list or export was given
    queried,   \* the rule types GetRules was asked for in the run
    docs,      \* the documents the run marshalled, with their identifiers
    history    \* the last two writes when both were toggles: id, flag,
               \*   the store before, the runs started before

runVars  == << store, nextID, info, pc, findings, evalErr, output, runCount,
               opCount, started, dirty, log, queried, docs >>
ruleVars == << cRule, cData, cDone, cResult >>
cliVars  == << lastCmd, lastErr, listed, history >>
vars     == << store, nextID, info, pc, findings, evalErr, output, runCount,
               opCount, started, dirty, log, cRule, cData, cDone, cResult,
               lastCmd, lastErr, listed, history, queried, docs >>

NoResult == [Rule |-> defaultRules[1], Resource |-> "", Passed |-> TRUE,
             Message |-> "", Value |-> Absent]
NoOutput == [SecurityFindings |-> << >>, SummarySecurityFindings |-> 0]

(***************************************************************************)
(* The rule store.                                                         *)
(***************************************************************************)
\* The SELECT of GetRules over a table: WHERE enabled = true, AND
\* rule_type = ? when a type is given; no ORDER BY.
selectRules(rows, ruleType) ==
    SelectSeq(rows, LAMBDA r : r.Enabled /\ (ruleType = "" \/ r.RuleType = ruleType))

\* GetRules without the WHERE enabled = true.
GetRulesDisabledToo(ruleType) ==
    SelectSeq(store, LAMBDA r : ruleType = "" \/ r.RuleType = ruleType)

\* GetRules without the AND rule_type = ?.
GetRulesAnyType(ruleType) ==
    SelectSeq(store, LAMBDA r : r.Enabled)

\* GetRules(ruleType): the enabled rows, of the type when one is given.
GetRules(ruleType) ==
    SelectSeq(store, LAMBDA r : r.Enabled /\ (ruleType = "" \/ r.RuleType = ruleType))

\* The rows of a table whose name column is not UNIQUE.
NameNeverTaken(name) == FALSE

\* Whether a row of the name is stored: name TEXT NOT NULL UNIQUE.
NameTaken(name) == \E i \in 1..Len(store) : store[i].Name = name

\* The error of a write that would store a name twice.
UniqueFailed == "UNIQUE constraint failed: security_rules.name"

\* AddRule(rule): INSERT; the UNIQUE constraint on name rejects a second
\* row of a name and leaves the table as it was.
AddRule(rule) ==
    /\ opCount < MaxOps
    /\ IF NameTaken(rule.Name)
       THEN UNCHANGED << store, nextID >>
       ELSE /\ store' = Append(store, [rule EXCEPT !.ID = nextID])
            /\ nextID' = nextID + 1
    /\ opCount' = opCount + 1
    /\ dirty' = (dirty \/ pc # "idle")
    /\ lastCmd' = "add"
    /\ lastErr' = IF NameTaken(rule.Name) THEN UniqueFailed ELSE ""
    /\ UNCHANGED << info, pc, findings, evalErr, output, runCount, started, log >>
    /\ UNCHANGED ruleVars
    /\ UNCHANGED listed
    /\ UNCHANGED << queried, docs >>
    /\ history' = << >>

\* DeleteRule(id): DELETE ... WHERE id = ?
DeleteRule(id) ==
    /\ opCount < MaxOps
    /\ store' = SelectSeq(store, LAMBDA r : r.ID # id)
    /\ opCount' = opCount + 1
    /\ dirty' = (dirty \/ pc # "idle")
    /\ lastCmd' = "delete"
    /\ lastErr' = ""
    /\ UNCHANGED << nextID, info, pc, findings, evalErr, output, runCount,
                    started, log >>
    /\ UNCHANGED ruleVars
    /\ UNCHANGED listed
    /\ UNCHANGED << queried, docs >>
    /\ history' = << >>

\* The last two writes after a toggle.
Toggled(id, enabled) ==
    LET this == [id |-> id, enabled |-> enabled, before |-> store,
                 runs |-> runCount]
    IN  IF history = << >> THEN << this >>
        ELSE << history[Len(history)], this >>

\* EnableRule that can disable a rule and not enable it again.
EnableRuleOneWay(id, enabled) ==
    /\ opCount < MaxOps
    /\ store' = [i \in 1..Len(store) |->
                    IF store[i].ID = id
                    THEN [store[i] EXCEPT !.Enabled = store[i].Enabled /\ enabled]
                    ELSE store[i]]
    /\ opCount' = opCount + 1
    /\ dirty' = (dirty \/ pc # "idle")
    /\ lastCmd' = "toggle"
    /\ lastErr' = ""
    /\ UNCHANGED << nextID, info, pc, findings, evalErr, output, runCount,
                    started, log >>
    /\ UNCHANGED ruleVars
    /\ UNCHANGED listed
    /\ UNCHANGED << queried, docs >>
    /\ history' = Toggled(id, enabled)

\* EnableRule(id, enabled): UPDATE ... SET enabled = ? WHERE id = ?
EnableRule(id, enabled) ==
    /\ opCount < MaxOps
    /\ store' = [i \in 1..Len(store) |->
                    IF store[i].ID = id THEN [store[i] EXCEPT !.Enabled = enabled]
                    ELSE store[i]]
    /\ opCount' = opCount + 1
    /\ dirty' = (dirty \/ pc # "idle")
    /\ lastCmd' = "toggle"
    /\ lastErr' = ""
    /\ UNCHANGED << nextID, info, pc, findings, evalErr, output, runCount,
                    started, log >>
    /\ UNCHANGED ruleVars
    /\ UNCHANGED listed
    /\ UNCHANGED << queried, docs >>
    /\ history' = Toggled(id, enabled)

\* Whether a table holds the name in a row other than the row of the id.
nameIn(rows, name, exceptID) ==
    \E i \in 1..Len(rows) : rows[i].Name = name /\ rows[i].ID # exceptID

\* The INSERT of AddRule on a table: the rows, the counter and the error.
insertRule(rows, nid, rule) ==
    IF nameIn(rows, rule.Name, 0)
    THEN [rows |-> rows, nextID |-> nid, err |-> UniqueFailed]
    ELSE [rows |-> Append(rows, [rule EXCEPT !.ID = nid]), nextID |-> nid + 1,
          err |-> ""]

\* The UPDATE of UpdateRuleByID on a table: every column of the row of the
\* id is set from the rule, unless that gives a second row of a name.
updateRule(rows, id, rule) ==
    IF (\E i \in 1..Len(rows) : rows[i].ID = id) /\ nameIn(rows, rule.Name, id)
    THEN [rows |-> rows, err |-> UniqueFailed]
    ELSE [rows |-> [i \in 1..Len(rows) |->
                       IF rows[i].ID = id THEN [rule EXCEPT !.ID = id]
                       ELSE rows[i]],
          err |-> ""]

\* UpdateRuleByID(id, rule)
UpdateRuleByID(id, rule) ==
    /\ opCount < MaxOps
    /\ store' = updateRule(store, id, rule).rows
    /\ opCount' = opCount + 1
    /\ dirty' = (dirty \/ pc # "idle")
    /\ lastCmd' = "update"
    /\ lastErr' = updateRule(store, id, rule).err
    /\ UNCHANGED << nextID, info, pc, findings, evalErr, output, runCount,
                    started, log >>
    /\ UNCHANGED ruleVars
    /\ UNCHANGED listed
    /\ UNCHANGED << queried, docs >>
    /\ history' = << >>

\* The rule of a name among the rules GetRules("") returns, 0 when none.
existingRule(rows, name) ==
    LET existingRules == selectRules(rows, "")
        hits == { k \in 1..Len(existingRules) : existingRules[k].Name = name }
    IN  IF hits = {} THEN 0
        ELSE existingRules[CHOOSE k \in hits : \A h \in hits : k <= h].ID

\* importRulesFromJSON going on with the next rule after a rule failed.
RECURSIVE importRulesKeepsOn(_, _, _, _)
importRulesKeepsOn(rows, nid, file, i) ==
    IF i > Len(file) THEN [rows |-> rows, nextID |-> nid, err |-> ""]
    ELSE LET rule == file[i]
             id == existingRule(rows, rule.Name)
             updated == updateRule(rows, id, [rule EXCEPT !.ID = id])
             added == insertRule(rows, nid, rule)
             next == IF id # 0
                     THEN importRulesKeepsOn(updated.rows, nid, file, i + 1)
                     ELSE importRulesKeepsOn(added.rows, added.nextID, file, i + 1)
         IN  IF id # 0 /\ updated.err # ""
             THEN [next EXCEPT !.err = "failed to update rule '" \o rule.Name \o "'"]
             ELSE IF id = 0 /\ added.err # ""
             THEN [next EXCEPT !.err = "failed to add rule '" \o rule.Name \o "'"]
             ELSE next

\* importRulesFromJSON from the i-th rule of the file on: each rule is
\* looked up by name in GetRules(""), updated under the id found or added;
\* the first error ends the import with the writes made so far in place.
RECURSIVE importRules(_, _, _, _)
importRules(rows, nid, file, i) ==
    IF i > Len(file) THEN [rows |-> rows, nextID |-> nid, err |-> ""]
    ELSE LET rule == file[i]
             id == existingRule(rows, rule.Name)
             updated == updateRule(rows, id, [rule EXCEPT !.ID = id])
             added == insertRule(rows, nid, rule)
         IN  IF id # 0
             THEN IF updated.err # ""
                  THEN [rows |-> rows, nextID |-> nid,
                        err |-> "failed to update rule '" \o rule.Name \o "'"]
                  ELSE importRules(updated.rows, nid, file, i + 1)
             ELSE IF added.err # ""
                  THEN [rows |-> rows, nextID |-> nid,
                        err |-> "failed to add rule '" \o rule.Name \o "'"]
                  ELSE importRules(added.rows, added.nextID, file, i + 1)

\* `rules import <file>`
ImportRules(file) ==
    /\ opCount < MaxOps
    /\ store' = importRules(store, nextID, file, 1).rows
    /\ nextID' = importRules(store, nextID, file, 1).nextID
    /\ opCount' = opCount + 1
    /\ dirty' = (dirty \/ pc # "idle")
    /\ lastCmd' = "import"
    /\ lastErr' = importRules(store, nextID, file, 1).err
    /\ UNCHANGED << info, pc, findings, evalErr, output, runCount, started, log >>
    /\ UNCHANGED ruleVars
    /\ UNCHANGED listed
    /\ UNCHANGED << queried, docs >>
    /\ history' = << >>

\* `rules list [--type <ruleType>]`: the rows printRulesTable is given.
ListRules(ruleType) ==
    /\ listed' = GetRules(ruleType)
    /\ lastCmd' = IF ruleType = "" THEN "list" ELSE "list --type"
    /\ lastErr' = ""
    /\ UNCHANGED runVars
    /\ UNCHANGED ruleVars
    /\ UNCHANGED history

\* `rules export <file>`: the rules exportRulesToJSON writes to the file.
ExportRules ==
    /\ listed' = GetRules("")
    /\ lastCmd' = "export"
    /\ lastErr' = ""
    /\ UNCHANGED runVars
    /\ UNCHANGED ruleVars
    /\ UNCHANGED history

(***************************************************************************)
(* runOnce: CollectAll, EvaluateClusterInfo (one step per resource type,   *)
(* each starting with its own GetRules), then outputResult.                *)
(***************************************************************************)
\* StartEvaluation keeping the findings of the run before.
StartEvaluationKeeps ==
    /\ findings' = findings
    /\ evalErr' = ""

\* EvaluateClusterInfo is entered with an empty findings slice.
StartEvaluation ==
    /\ findings' = << >>
    /\ evalErr' = ""

\* runOnce up to the call of evaluatePods.
RunOnce(snapshot) ==
    /\ pc = "idle"
    /\ runCount < MaxRuns
    /\ info' = snapshot
    /\ StartEvaluation
    /\ pc' = "pods"
    /\ runCount' = runCount + 1
    /\ started' = store
    /\ dirty' = FALSE
    /\ log' = IF Len(log) > 1 THEN Tail(log) ELSE log
    /\ queried' = << >>
    /\ docs' = << >>
    /\ UNCHANGED << store, nextID, output, opCount >>
    /\ UNCHANGED ruleVars
    /\ UNCHANGED cliVars

\* A failed GetRules: EvaluateClusterInfo returns nil and the error.
Abort(what) ==
    /\ findings' = << >>
    /\ evalErr' = "failed to evaluate " \o what \o " rules"
    /\ pc' = "output"

\* Extend putting the findings of the type in front.
ExtendFront(typeFindings, next) ==
    /\ findings' = typeFindings \o findings
    /\ pc' = next
    /\ UNCHANGED evalErr

\* findings = append(findings, typeFindings...)
Extend(typeFindings, next) ==
    /\ findings' = findings \o typeFindings
    /\ pc' = next
    /\ UNCHANGED evalErr

EvaluatePodsStep(dbFails) ==
    /\ pc = "pods"
    /\ IF dbFails THEN Abort("pod")
       ELSE Extend(evaluatePods(GetRules("pod"), info.Pods, 1), "services")
    /\ UNCHANGED << store, nextID, info, output, runCount, opCount, started,
                    dirty, log >>
    /\ queried' = Append(queried, "pod")
    /\ docs' = IF dbFails THEN docs
               ELSE docs \o podDocuments(info.Pods, 1)
    /\ UNCHANGED ruleVars
    /\ UNCHANGED cliVars

\* EvaluateServicesStep asking the store only when there are services.
EvaluateServicesStepSkipsEmpty(dbFails) ==
    /\ pc = "services"
    /\ IF info.Services = << >>
       THEN /\ Extend(<< >>, "rbac")
            /\ UNCHANGED << queried, docs >>
       ELSE /\ IF dbFails THEN Abort("service")
               ELSE Extend(evaluateServices(GetRules("service"),
                                            info.Services, 1), "rbac")
            /\ queried' = Append(queried, "service")
            /\ docs' = IF dbFails THEN docs
                       ELSE docs \o serviceDocuments(info.Services, 1)
    /\ UNCHANGED << store, nextID, info, output, runCount, opCount, started,
                    dirty, log >>
    /\ UNCHANGED ruleVars
    /\ UNCHANGED cliVars

EvaluateServicesStep(dbFails) ==
    /\ pc = "services"
    /\ IF dbFails THEN Abort("service")
       ELSE Extend(evaluateServices(GetRules("service"), info.Services, 1),
                   "rbac")
    /\ UNCHANGED << store, nextID, info, output, runCount, opCount, started,
                    dirty, log >>
    /\ queried' = Append(queried, "service")
    /\ docs' = IF dbFails THEN docs
               ELSE docs \o serviceDocuments(info.Services, 1)
    /\ UNCHANGED ruleVars
    /\ UNCHANGED cliVars

EvaluateRBACStep(dbFails) ==
    /\ pc = "rbac"
    /\ IF dbFails THEN Abort("RBAC")
       ELSE Extend(evaluateRBAC(GetRules("rbac"), info.RBAC), "namespaces")
    /\ UNCHANGED << store, nextID, info, output, runCount, opCount, started,
                    dirty, log >>
    /\ queried' = Append(queried, "rbac")
    /\ docs' = IF dbFails THEN docs
               ELSE docs \o rbacDocuments(info.RBAC)
    /\ UNCHANGED ruleVars
    /\ UNCHANGED cliVars

\* EvaluateNamespacesStep disabling every rule when the store read fails.
EvaluateNamespacesStepWrites(dbFails) ==
    /\ pc = "namespaces"
    /\ IF dbFails THEN Abort("namespace")
       ELSE Extend(evaluateNamespaces(GetRules("namespace"), info.Namespaces,
                                      info.NetworkPolicies, 1), "output")
    /\ store' = IF dbFails
                THEN [i \in 1..Len(store) |-> [store[i] EXCEPT !.Enabled = FALSE]]
                ELSE store
    /\ UNCHANGED << nextID, info, output, runCount, opCount, started,
                    dirty, log >>
    /\ queried' = Append(queried, "namespace")
    /\ docs' = IF dbFails THEN docs
               ELSE docs \o namespaceDocuments(info.Namespaces,
                                           info.NetworkPolicies, 1)
    /\ UNCHANGED ruleVars
    /\ UNCHANGED cliVars

EvaluateNamespacesStep(dbFails) ==
    /\ pc = "namespaces"
    /\ IF dbFails THEN Abort("namespace")
       ELSE Extend(evaluateNamespaces(GetRules("namespace"), info.Namespaces,
                                      info.NetworkPolicies, 1), "output")
    /\ UNCHANGED << store, nextID, info, output, runCount, opCount, started,
                    dirty, log >>
    /\ queried' = Append(queried, "namespace")
    /\ docs' = IF dbFails THEN docs
               ELSE docs \o namespaceDocuments(info.Namespaces,
                                           info.NetworkPolicies, 1)
    /\ UNCHANGED ruleVars
    /\ UNCHANGED cliVars

\* OutputResult setting the findings and leaving the summary as collected.
OutputResultNoCount ==
    /\ pc = "output"
    /\ output' = IF evalErr # "" THEN NoOutput
                 ELSE [SecurityFindings |-> findings,
                       SummarySecurityFindings |-> 0]
    /\ log' = Append(log, [info |-> info, store |-> started, dirty |-> dirty,
                           err |-> evalErr, findings |-> findings,
                           queried |-> queried])
    /\ pc' = "idle"
    /\ UNCHANGED << store, nextID, info, findings, evalErr, runCount, opCount,
                    started, dirty >>
    /\ UNCHANGED << queried, docs >>
    /\ UNCHANGED ruleVars
    /\ UNCHANGED cliVars

\* runOnce after EvaluateClusterInfo returned: the findings and their count
\* are set on the result only when there was no error; then outputResult.
OutputResult ==
    /\ pc = "output"
    /\ output' = IF evalErr # "" THEN NoOutput
                 ELSE [SecurityFindings |-> findings,
                       SummarySecurityFindings |-> Len(findings)]
    /\ log' = Append(log, [info |-> info, store |-> started, dirty |-> dirty,
                           err |-> evalErr, findings |-> findings,
                           queried |-> queried])
    /\ pc' = "idle"
    /\ UNCHANGED << store, nextID, info, findings, evalErr, runCount, opCount,
                    started, dirty >>
    /\ UNCHANGED << queried, docs >>
    /\ UNCHANGED ruleVars
    /\ UNCHANGED cliVars

Init ==
    /\ store \in InitStores
    /\ nextID = Len(store) + 1
    /\ info = EmptyInfo
    /\ pc = "idle"
    /\ findings = << >>
    /\ evalErr = ""
    /\ output = NoOutput
    /\ runCount = 0
    /\ opCount = 0
    /\ started = << >>
    /\ dirty = FALSE
    /\ log = << >>
    /\ cRule = defaultRules[1]
    /\ cData = JObj(<< >>)
    /\ cDone = FALSE
    /\ cResult = NoResult
    /\ lastCmd = ""
    /\ lastErr = ""
    /\ listed = << >>
    /\ history = << >>
    /\ queried = << >>
    /\ docs = << >>

Next ==
    \/ \E snapshot \in Snapshots : RunOnce(snapshot)
    \/ \E dbFails \in BOOLEAN : EvaluatePodsStep(dbFails)
    \/ \E dbFails \in BOOLEAN : EvaluateServicesStep(dbFails)
    \/ \E dbFails \in BOOLEAN : EvaluateRBACStep(dbFails)
    \/ \E dbFails \in BOOLEAN : EvaluateNamespacesStep(dbFails)
    \/ OutputResult
    \/ \E rule \in AddInputs : AddRule(rule)
    \/ \E id \in DeleteInputs : DeleteRule(id)

Spec == Init /\ [][Next]_vars

\* The daemon's runs with `rules toggle` as the command run beside them.
NextToggle ==
    \/ \E snapshot \in Snapshots : RunOnce(snapshot)
    \/ \E dbFails \in BOOLEAN : EvaluatePodsStep(dbFails)
    \/ \E dbFails \in BOOLEAN : EvaluateServicesStep(dbFails)
    \/ \E dbFails \in BOOLEAN : EvaluateRBACStep(dbFails)
    \/ \E dbFails \in BOOLEAN : EvaluateNamespacesStep(dbFails)
    \/ OutputResult
    \/ \E id \in EnableInputs, enabled \in BOOLEAN : EnableRule(id, enabled)

SpecToggle == Init /\ [][NextToggle]_vars

\* The `rules` commands and the engine's write operations on one database.
NextStore ==
    \/ \E rule \in AddInputs : AddRule(rule)
    \/ \E id \in UpdateIDs, rule \in UpdateInputs : UpdateRuleByID(id, rule)
    \/ \E id \in DeleteInputs : DeleteRule(id)
    \/ \E id \in EnableInputs, enabled \in BOOLEAN : EnableRule(id, enabled)
    \/ \E file \in ImportFiles : ImportRules(file)
    \/ \E ruleType \in ListTypes : ListRules(ruleType)
    \/ ExportRules

SpecStore == Init /\ [][NextStore]_vars

(***************************************************************************)
(* evaluateRule taken alone, over documents {"v": value} and the paths     *)
(* that resolve in them or do not.                                         *)
(***************************************************************************)
Values ==
    { JNull, JTrue, JFalse }
    \cup { JNum(i) : i \in 0..MaxNum }
    \cup { JStr(x) : x \in { "", "default", "NodePort", "nginx:latest",
                             "nginx:1.25", "nginx", "true", "0", "admin" } }
    \cup { JArr(<< >>), JArr(<< JStr("nginx:latest") >>),
           JArr(<< JObj(<< <<"image", JStr("nginx:latest")>> >>) >>),
           JObj(<< >>), JObj(<< <<"cpu", JStr("1")>> >>),
           JArr(<< JStr("get"), JStr("list"), JStr("watch"), JStr("create"),
                   JStr("update"), JStr("delete") >>) }

Documents == { JObj(<< <<"v", x>> >>) : x \in Values }

Queries == { "v", "w", "$.v", "v.#.image", "v.0" }

Conditions ==
    { "== true", "== false", "== null", "== 0", "== 'NodePort'",
      "== 'default'", " == true ", "== 0 OR null", "null OR empty",
      "endsWith ':latest'", "endsWith ':latest' OR NOT contains ':'",
      "NOT contains ':'", "count == 0", "count > 5", "contains 'admin'",
      "== 'default' OR == '' OR null", "== null OR == 'false'",
      "is null", "exists", "== \"default\"", "== ''", "== 'nginx'",
      "== \"NodePort\"" }

InitRule ==
    /\ store = << >>
    /\ nextID = 1
    /\ info = EmptyInfo
    /\ pc = "idle"
    /\ findings = << >>
    /\ evalErr = ""
    /\ output = NoOutput
    /\ runCount = 0
    /\ opCount = 0
    /\ started = << >>
    /\ dirty = FALSE
    /\ log = << >>
    /\ \E query \in Queries, condition \in Conditions :
          cRule = SecurityRule("rule", "Category", "HIGH", "the description",
                               "the remediation", "pod", query, condition, "")
    /\ cData \in Documents
    /\ cDone = FALSE
    /\ cResult = NoResult
    /\ lastCmd = ""
    /\ lastErr = ""
    /\ listed = << >>
    /\ history = << >>
    /\ queried = << >>
    /\ docs = << >>

EvaluateRule ==
    /\ ~cDone
    /\ cResult' = evaluateRule(cRule, cData, "Pod/prod/web")
    /\ cDone' = TRUE
    /\ UNCHANGED << cRule, cData >>
    /\ UNCHANGED runVars
    /\ UNCHANGED cliVars

NextRule == EvaluateRule

SpecRule == InitRule /\ [][NextRule]_vars

\* The value evaluateRule extracted in the pending or finished call.
cValue == Get(cData, cRule.Query)
\* The condition text as evaluateCondition reads it.
cCond == TrimSpace(cRule.Condition)

(***************************************************************************)
(* Properties of evaluateRule, under SpecRule.                             *)
(***************************************************************************)
cFinding == cDone /\ ~cResult.Passed
cNoFinding == cDone /\ cResult.Passed /\ cResult.Message = ""

\* C1: when the query path is absent from the document and the condition
\* text does not contain "null", evaluateRule reports Passed with an empty
\* message, whatever recognizer the condition would dispatch to.
C1_NotApplicable ==
    (cDone /\ ~Exists(cValue) /\ ~Contains(cRule.Condition, "null"))
        => cNoFinding

\* C1 witness: an absent value under `== false`, which the `==` recognizer
\* would report, has been evaluated and passed.
C1_Witness ==
    /\ cDone /\ ~Exists(cValue) /\ cCond = "== false"
    /\ ~evaluateCondition(cValue, cRule.Condition, cRule.Description).passed
    /\ cResult.Passed

C3_CountZeroIffEmptyArray ==
    (cDone /\ cCond = "count == 0") =>
        (cFinding <=> (cValue.t = "Array" /\ Len(cValue.e) = 0))

\* C4 as claimed: under exactly `null OR empty` a finding is emitted iff the
\* extracted value is absent or an object with zero keys.
C4_NullOrEmptyIff ==
    (cDone /\ cCond = "null OR empty") =>
        (cFinding <=> (~Exists(cValue)
                        \/ (cValue.t = "Object" /\ Len(cValue.e) = 0)))

\* C5 as claimed: under `== 0 OR null` a finding is emitted for a value that
\* is numerically zero and for an absent field, and none for a present
\* non-zero number.
C5_ZeroOrNull ==
    (cDone /\ cCond = "== 0 OR null") =>
        /\ (cValue.t = "Number" /\ cValue.n = 0 => cFinding)
        /\ (~Exists(cValue) => cFinding)
        /\ (cValue.t = "Number" /\ cValue.n # 0 => cNoFinding)

\* The six triggers of evaluateCondition.
Recognized(cond) ==
    \/ Contains(cond, "==")
    \/ Contains(cond, "null OR")
    \/ Contains(cond, "endsWith")
    \/ Contains(cond, "NOT contains")
    \/ Contains(cond, "count == 0")
    \/ cond = "null OR empty"

Clean(run) == run.err = "" /\ ~run.dirty

HasImage(pod, image) ==
    \E i \in 1..Len(pod.Containers) : pod.Containers[i].Image = image

OnlyImage(pod, image) ==
    Len(pod.Containers) = 1 /\ pod.Containers[1].Image = image

ScenarioBRule(r) ==
    /\ r.Enabled /\ r.RuleType = "pod"
    /\ r.Query = "$.containers[*].image"
    /\ r.Condition = "endsWith ':latest'"

Reported(fs, rule, resourceName) ==
    \E i \in 1..Len(fs) :
        fs[i].Resource = resourceName /\ fs[i].Message = rule.Description

\* C6 as claimed: with the pod rule `$.containers[*].image` /
\* `endsWith ':latest'` in the store, a run reports a pod that has a
\* container of image nginx:latest and does not report a pod whose only
\* container image is nginx:1.25.
C6_ScenarioB ==
    \A k \in 1..Len(log) : Clean(log[k]) =>
        \A i \in 1..Len(log[k].store) : ScenarioBRule(log[k].store[i]) =>
            \A p \in 1..Len(log[k].info.Pods) :
                LET pod == log[k].info.Pods[p]
                    reported == Reported(log[k].findings, log[k].store[i],
                                         PodName(pod))
                IN  /\ HasImage(pod, "nginx:latest") => reported
                    /\ OnlyImage(pod, "nginx:1.25") => ~reported

Kind(resource) == Upto(resource, Index(resource, "/") - 1)

KindRank(kind) ==
    CASE kind = "Pod"         -> 1
      [] kind = "Service"     -> 2
      [] kind = "ClusterRole" -> 3
      [] kind = "Role"        -> 4
      [] kind = "Namespace"   -> 5

\* The resource identifiers of a snapshot, in processing order.
ResourceNames(snapshot) ==
    [i \in 1..Len(snapshot.Pods) |-> PodName(snapshot.Pods[i])]
    \o [i \in 1..Len(snapshot.Services) |-> ServiceName(snapshot.Services[i])]
    \o [i \in 1..Len(snapshot.RBAC.ClusterRoles) |->
            ClusterRoleName(snapshot.RBAC.ClusterRoles[i])]
    \o [i \in 1..Len(snapshot.RBAC.Roles) |-> RoleName(snapshot.RBAC.Roles[i])]
    \o [i \in 1..Len(snapshot.Namespaces) |->
            NamespaceName(snapshot.Namespaces[i])]

Position(seq, x) == CHOOSE i \in 1..Len(seq) : seq[i] = x

\* The row of the store a finding comes from (descriptions differ by rule).
RuleRank(rows, finding) ==
    CHOOSE i \in 1..Len(rows) : rows[i].Description = finding.Message

\* f comes no later than g: by kind, then by resource, then by rule.
InOrder(run, f, g) ==
    LET names == ResourceNames(run.info)
    IN  \/ KindRank(Kind(f.Resource)) < KindRank(Kind(g.Resource))
        \/ /\ Kind(f.Resource) = Kind(g.Resource)
           /\ \/ Position(names, f.Resource) < Position(names, g.Resource)
              \/ /\ f.Resource = g.Resource
                 /\ RuleRank(run.store, f) <= RuleRank(run.store, g)

\* C8: the findings a run returns are ordered pods, services, cluster
\* roles, roles, namespaces; within a kind in the collector's resource
\* order; within a resource in the order the store returned the rules.
C8_FindingOrder ==
    \A k \in 1..Len(log) : Clean(log[k]) =>
        \A i, j \in 1..Len(log[k].findings) :
            i < j => InOrder(log[k], log[k].findings[i], log[k].findings[j])

\* C8 witness: a run returned findings of all five kinds, two of them on
\* one resource.
C8_Witness ==
    \E k \in 1..Len(log) :
        /\ Clean(log[k])
        /\ { Kind(log[k].findings[i].Resource) : i \in 1..Len(log[k].findings) }
             = { "Pod", "Service", "ClusterRole", "Role", "Namespace" }
        /\ \E i, j \in 1..Len(log[k].findings) :
              /\ i < j
              /\ log[k].findings[i].Resource = log[k].findings[j].Resource

\* C9: two runs on the same snapshot with the same, unwritten store return
\* the same findings in the same order.
C9_Deterministic ==
    \A i, j \in 1..Len(log) :
        (/\ Clean(log[i]) /\ Clean(log[j])
         /\ log[i].info = log[j].info
         /\ log[i].store = log[j].store)
            => log[i].findings = log[j].findings

\* C9 witness: two such runs have completed and returned findings.
C9_Witness ==
    /\ Len(log) = 2
    /\ Clean(log[1]) /\ Clean(log[2])
    /\ log[1].info = log[2].info
    /\ log[1].store = log[2].store
    /\ Len(log[2].findings) > 1

StripID(rule) == [rule EXCEPT !.ID = 0]

\* The rules of two stores are the same, whatever their order and ids.
Permuted(rows1, rows2) ==
    /\ Len(rows1) = Len(rows2)
    /\ { StripID(rows1[i]) : i \in 1..Len(rows1) }
         = { StripID(rows2[i]) : i \in 1..Len(rows2) }

Count(fs, f) == Cardinality({ i \in 1..Len(fs) : fs[i] = f })

\* The same findings, each as often (a finding names its resource, so this
\* is the multiset of findings of every resource).
SameBag(fs, gs) ==
    \A f \in { fs[i] : i \in 1..Len(fs) } \cup { gs[i] : i \in 1..Len(gs) } :
        Count(fs, f) = Count(gs, f)

\* The resources of a finding list in order, a run of findings on one
\* resource counted once.
RECURSIVE Grouping(_, _)
Grouping(fs, i) ==
    IF i > Len(fs) THEN << >>
    ELSE (IF i > 1 /\ fs[i - 1].Resource = fs[i].Resource THEN << >>
          ELSE << fs[i].Resource >>)
         \o Grouping(fs, i + 1)

\* C10: when the store returns the same rules in another order, a run on
\* the same snapshot returns the same multiset of findings per resource and
\* the same order of resources and kinds.
C10_PermutationInvariant ==
    \A i, j \in 1..Len(log) :
        (/\ Clean(log[i]) /\ Clean(log[j])
         /\ log[i].info = log[j].info
         /\ Permuted(log[i].store, log[j].store))
            => /\ SameBag(log[i].findings, log[j].findings)
               /\ Grouping(log[i].findings, 1) = Grouping(log[j].findings, 1)

\* C10 witness: two runs on one snapshot with the rules in different
\* orders returned the findings of a resource in different orders.
C10_Witness ==
    /\ Len(log) = 2
    /\ Clean(log[1]) /\ Clean(log[2])
    /\ log[1].info = log[2].info
    /\ Permuted(log[1].store, log[2].store)
    /\ log[1].findings # log[2].findings

(***************************************************************************)
(* Further properties of evaluateRule, under SpecRule.                     *)
(***************************************************************************)
\* C18 as claimed: under `== 'default' OR == '' OR null` only the first
\* `==` clause governs, so a value whose string form is `default` yields a
\* finding carrying the description.
C18_FirstClauseGoverns ==
    (cDone /\ cCond = "== 'default' OR == '' OR null"
           /\ Exists(cValue) /\ String(cValue) = "default")
        => cFinding /\ cResult.Message = cRule.Description

\* C19 as claimed: under `endsWith ':latest' OR NOT contains ':'` an image
\* string that ends with `:latest` yields a finding, and so does an image
\* string without any `:`.
C19_LatestOrUntagged ==
    (cDone /\ cCond = "endsWith ':latest' OR NOT contains ':'"
           /\ cValue.t = "String" /\ cValue.s # "")
        => /\ HasSuffix(cValue.s, ":latest") => cFinding
           /\ ~Contains(cValue.s, ":") => cFinding

\* C20 as claimed: under `== null` a missing field and a field holding an
\* explicit null yield a finding, and a field holding another value yields
\* none.
C20_EqualsNull ==
    (cDone /\ cCond = "== null") =>
        /\ ~Exists(cValue) => cFinding
        /\ cValue = JNull => cFinding
        /\ (Exists(cValue) /\ cValue # JNull) => cNoFinding

(***************************************************************************)
(* Further properties of the runs, under Spec and SpecToggle.              *)
(***************************************************************************)
\* C11 as claimed: when GetRules fails for one resource type, the findings
\* of the resource types processed before it in the run are kept: the
\* failing step leaves them with the caller, and runOnce gives them to
\* outputResult.
C11_EarlierFindingsKept ==
    [][/\ (evalErr = "" /\ evalErr' # "") => findings' = findings
       /\ (pc = "output" /\ pc' = "idle" /\ evalErr # "")
              => output'.SecurityFindings = findings]_vars

\* The rule type evaluated on the resources of a kind.
TypeOfKind(kind) ==
    CASE kind = "Pod"         -> "pod"
      [] kind = "Service"     -> "service"
      [] kind = "ClusterRole" -> "rbac"
      [] kind = "Role"        -> "rbac"
      [] kind = "Namespace"   -> "namespace"

\* The rows of a table a finding's message is the description of.
RowsOf(rows, finding) ==
    { i \in 1..Len(rows) : rows[i].Description = finding.Message }

\* C12: only enabled rules take part in a run, each on the resources of its
\* own type: every finding of a run comes from a row that was enabled in
\* the store the run read, never from a row disabled by EnableRule(id,
\* false), and the row's type is the type of the finding's resource.
C12_OnlyEnabledRules ==
    \A k \in 1..Len(log) : Clean(log[k]) =>
        \A i \in 1..Len(log[k].findings) :
            LET f == log[k].findings[i]
            IN  /\ RowsOf(log[k].store, f) # {}
                /\ \A j \in RowsOf(log[k].store, f) :
                      /\ log[k].store[j].Enabled
                      /\ log[k].store[j].RuleType = TypeOfKind(Kind(f.Resource))

\* C12 witness: a rule reported by one run was disabled before the next run
\* on the same snapshot, which still returned findings, none of them from
\* the disabled rule.
C12_Witness ==
    /\ Len(log) = 2 /\ Clean(log[1]) /\ Clean(log[2])
    /\ log[1].info = log[2].info
    /\ log[2].findings # << >>
    /\ \E j \in 1..Len(log[2].store) :
          /\ ~log[2].store[j].Enabled
          /\ log[1].store[j].Enabled
          /\ \E i \in 1..Len(log[1].findings) :
                log[1].findings[i].Message = log[2].store[j].Description
          /\ \A i \in 1..Len(log[2].findings) :
                log[2].findings[i].Message # log[2].store[j].Description

(***************************************************************************)
(* Properties of the rule store and the `rules` commands, under SpecStore. *)
(***************************************************************************)
\* A step of the named command or operation.
Ran(cmd) == lastCmd' = cmd /\ opCount' = opCount + 1

\* C13 as claimed: `rules import` is an upsert by name: it never fails
\* because a name of the file is already stored, whether the stored rule
\* is enabled or disabled, and every stored rule keeps its id, its name
\* and its place.
C13_ImportUpserts ==
    [][Ran("import") =>
          /\ lastErr' = ""
          /\ Len(store') >= Len(store)
          /\ \A i \in 1..Len(store) :
                store'[i].ID = store[i].ID /\ store'[i].Name = store[i].Name]_vars

\* C14 as claimed: `rules list` without a type and `rules export` give
\* every stored rule, the disabled ones included.
C14_ListsEveryRule ==
    lastCmd \in { "list", "export" } => listed = store

NamesUnique(rows) ==
    \A i, j \in 1..Len(rows) : rows[i].Name = rows[j].Name => i = j

\* C15: after any sequence of AddRule, UpdateRuleByID, DeleteRule,
\* EnableRule and imports no two stored rules have the same name, and an
\* AddRule or UpdateRuleByID that returns an error leaves the store as it
\* was.
C15_NamesUnique ==
    [][/\ NamesUnique(store')
       /\ ((Ran("add") \/ Ran("update")) /\ lastErr' # "")
              => (store' = store /\ nextID' = nextID)]_vars

\* C15 witness: an UpdateRuleByID that would have given a second rule of a
\* name was refused after another write.
C15_Witness ==
    /\ lastCmd = "update" /\ lastErr = UniqueFailed /\ opCount = 2
    /\ NamesUnique(store)

(***************************************************************************)
(* Properties of the findings, under Spec.                                 *)
(***************************************************************************)
Elements(seq) == { seq[i] : i \in 1..Len(seq) }

\* The identifiers the resources of a snapshot are reported under.
Identifiers(snapshot) ==
    { "Pod/" \o p.Namespace \o "/" \o p.Name : p \in Elements(snapshot.Pods) }
    \cup { "Service/" \o x.Namespace \o "/" \o x.Name :
              x \in Elements(snapshot.Services) }
    \cup { "Role/" \o x.Namespace \o "/" \o x.Name :
              x \in Elements(snapshot.RBAC.Roles) }
    \cup { "ClusterRole/" \o x.Name : x \in Elements(snapshot.RBAC.ClusterRoles) }
    \cup { "Namespace/" \o x.Name : x \in Elements(snapshot.Namespaces) }

\* C16: every finding of a run pairs one rule of the store with one
\* resource of the snapshot: its severity, category and remediation are the
\* rule's, its message is the rule's description, its resource is the
\* identifier of the resource; and no (resource, rule) pair has two findings.
C16_FindingPairsRuleAndResource ==
    \A k \in 1..Len(log) : Clean(log[k]) =>
        /\ \A i \in 1..Len(log[k].findings) :
              LET f == log[k].findings[i]
              IN  /\ f.Resource \in Identifiers(log[k].info)
                  /\ \E r \in Elements(log[k].store) :
                        /\ f.Message = r.Description
                        /\ f.Severity = r.Severity
                        /\ f.Category = r.Category
                        /\ f.Remediation = r.Remediation
        /\ \A i, j \in 1..Len(log[k].findings) :
              (/\ log[k].findings[i].Resource = log[k].findings[j].Resource
               /\ log[k].findings[i].Message = log[k].findings[j].Message)
                  => i = j

\* C16 witness: a run returned findings of one rule on two resources and
\* findings of two rules on one resource.
C16_Witness ==
    \E k \in 1..Len(log) :
        /\ Clean(log[k])
        /\ \E i, j \in 1..Len(log[k].findings) :
              /\ log[k].findings[i].Resource # log[k].findings[j].Resource
              /\ log[k].findings[i].Message = log[k].findings[j].Message
        /\ \E i, j \in 1..Len(log[k].findings) :
              /\ log[k].findings[i].Resource = log[k].findings[j].Resource
              /\ log[k].findings[i].Message # log[k].findings[j].Message

\* What EvaluateClusterInfo returns when every GetRules of the run reads
\* the same table.
EvaluateOn(rows, snapshot) ==
    evaluatePods(selectRules(rows, "pod"), snapshot.Pods, 1)
    \o evaluateServices(selectRules(rows, "service"), snapshot.Services, 1)
    \o evaluateRBAC(selectRules(rows, "rbac"), snapshot.RBAC)
    \o evaluateNamespaces(selectRules(rows, "namespace"), snapshot.Namespaces,
                          snapshot.NetworkPolicies, 1)

\* C17 as claimed: the rules of a run come from one snapshot of the store
\* taken at its start, so a write to the store inside the run does not
\* change the findings the run returns.
C17_SnapshotAtStart ==
    \A k \in 1..Len(log) :
        log[k].err = "" => log[k].findings = EvaluateOn(log[k].store, log[k].info)

\* C17 amended: each resource type's rules are read from the store when
\* that type is evaluated; a run during which the store is not written
\* returns the findings of the store as it was at the start of the run
\* (stated of each run in the states after it completed).
C17_UnwrittenStore ==
    (pc = "idle" /\ log # << >> /\ Clean(log[Len(log)])) =>
        log[Len(log)].findings
            = EvaluateOn(log[Len(log)].store, log[Len(log)].info)

\* C17 witness: a run during which the store was written returned other
\* findings than the store at its start gives, and the next run, with the
\* store left alone, returned the findings of the store at its start.
C17_Witness ==
    /\ Len(log) = 2
    /\ log[1].err = "" /\ log[1].dirty
    /\ log[1].findings # EvaluateOn(log[1].store, log[1].info)
    /\ Clean(log[2]) /\ log[2].findings # << >>
    /\ log[2].findings = EvaluateOn(log[2].store, log[2].info)

(***************************************************************************)
(* The documented operators and the dispatch, under SpecRule.              *)
(***************************************************************************)
\* C21 as claimed: `contains 'admin'` yields a finding when the value's
\* string form contains `admin`, and `count > 5` yields a finding when the
\* value is an array of more than 5 elements.
C21_ContainsAndCount ==
    /\ (cDone /\ cCond = "contains 'admin'" /\ Exists(cValue)
              /\ Contains(String(cValue), "admin")) => cFinding
    /\ (cDone /\ cCond = "count > 5" /\ IsArray(cValue)
              /\ Len(ArrayOf(cValue)) > 5) => cFinding

\* The literals of the quoted conditions among Conditions.
Literals == { "NodePort", "default", "", "nginx" }

\* The condition is `== '<s>'` or `== "<s>"`.
QuotedEquals(cond, s) ==
    cond = "== '" \o s \o "'" \/ cond = "== \"" \o s \o "\""

\* C24 as claimed: under `== '<s>'` or `== "<s>"` a present value yields a
\* finding iff its string form is <s>, for every literal, `default`
\* included, and every value, the empty string included.
C24_QuotedLiteral ==
    \A s \in Literals :
        (cDone /\ QuotedEquals(cCond, s) /\ Exists(cValue))
            => (cFinding <=> String(cValue) = s)

\* C24 amended: under `== '<s>'` or `== "<s>"` a present value yields a
\* finding iff its string form is <s>, except that under the literal
\* `default` it also yields a finding when its string form is empty.
C24_QuotedLiteralOrDefault ==
    \A s \in Literals :
        (cDone /\ QuotedEquals(cCond, s) /\ Exists(cValue))
            => (cFinding <=> \/ String(cValue) = s
                             \/ (s = "default" /\ String(cValue) = ""))

\* C24 witness: the literal `default` gave a finding on an empty string.
C24_Witness ==
    /\ cFinding /\ QuotedEquals(cCond, "default")
    /\ cValue = JStr("")

DisabledAndEnabled ==
    /\ Len(history) = 2
    /\ history[1].id = history[2].id
    /\ ~history[1].enabled /\ history[2].enabled
    /\ \E r \in Elements(history[1].before) : r.ID = history[1].id /\ r.Enabled

\* C22: EnableRule(id, false) followed by EnableRule(id, true) gives back
\* the store as it was, every rule with the fields and the enabled flag it
\* had, and a run after the pair returns the findings of the run on the
\* same snapshot before it.
C22_ToggleReversible ==
    DisabledAndEnabled =>
        /\ store = history[1].before
        /\ (/\ Len(log) = 2 /\ Clean(log[1]) /\ Clean(log[2])
            /\ log[1].info = log[2].info
            /\ log[1].store = history[1].before
            /\ history[1].runs = 1 /\ history[2].runs = 1)
               => log[2].findings = log[1].findings

\* C22 witness: a run reported the rule, the rule was disabled and enabled
\* again, and the next run on the same snapshot has completed.
C22_Witness ==
    /\ DisabledAndEnabled
    /\ Len(log) = 2 /\ Clean(log[1]) /\ Clean(log[2])
    /\ log[1].info = log[2].info
    /\ history[1].runs = 1 /\ history[2].runs = 1
    /\ \E r \in Elements(store) :
          /\ r.ID = history[1].id
          /\ \E i \in 1..Len(log[2].findings) :
                log[2].findings[i].Message = r.Description

(***************************************************************************)
(* Properties of the store reads and the documents of a run, under Spec.   *)
(***************************************************************************)
\* The rule types in the order EvaluateClusterInfo asks for them.
RuleTypes == << "pod", "service", "rbac", "namespace" >>

\* The resources of a snapshot a rule type is evaluated on.
Collection(snapshot, ruleType) ==
    CASE ruleType = "pod"       -> snapshot.Pods
      [] ruleType = "service"   -> snapshot.Services
      [] ruleType = "rbac"      -> snapshot.RBAC.ClusterRoles \o snapshot.RBAC.Roles
      [] ruleType = "namespace" -> snapshot.Namespaces

\* The word for a rule type in EvaluateClusterInfo's errors.
ErrorWord(ruleType) == IF ruleType = "rbac" THEN "RBAC" ELSE ruleType

\* C25 as claimed: a run asks the store for the rules of a type only when
\* the snapshot's collection of that type is not empty, so a store failure
\* for a type with an empty collection cannot fail the run.
C25_QueriesOnlyNonEmpty ==
    \A k \in 1..Len(log) : \A i \in 1..Len(log[k].queried) :
        Collection(log[k].info, log[k].queried[i]) # << >>

\* C25 amended: a run asks the store once for every rule type, in the order
\* pod, service, rbac, namespace, whether the collection is empty or not,
\* until a query fails; the failed query is the last and fails the run.
C25_QueriesEveryType ==
    \A k \in 1..Len(log) :
        LET q == log[k].queried
        IN  /\ q = SubSeq(RuleTypes, 1, Len(q))
            /\ log[k].err = "" => q = RuleTypes
            /\ log[k].err # "" =>
                  /\ q # << >>
                  /\ log[k].err
                       = "failed to evaluate " \o ErrorWord(q[Len(q)]) \o " rules"

\* C25 witness: a run on a snapshot without services failed on the query
\* for the service rules.
C25_Witness ==
    \E k \in 1..Len(log) :
        /\ log[k].info.Services = << >>
        /\ log[k].err = "failed to evaluate service rules"

\* A run has completed without error and its documents are at hand.
Evaluated == pc = "idle" /\ runCount > 0 /\ evalErr = ""

\* The policies of the snapshot in a namespace, in collection order.
PoliciesIn(snapshot, name) ==
    SelectSeq(snapshot.NetworkPolicies, LAMBDA p : p.Namespace = name)

\* C26: the document of a namespace N holds under `networkPolicies` the
\* policies of the snapshot whose namespace is N, in collection order, and
\* no other policy (null when there is none); the documents of pods,
\* services and roles have no such member.
C26_NamespaceJoin ==
    Evaluated =>
        \A i \in 1..Len(docs) :
            LET d == docs[i]
                expected == PoliciesIn(info, String(Get(d.Data, "name")))
            IN  IF Kind(d.Resource) # "Namespace"
                THEN ~Exists(Get(d.Data, "networkPolicies"))
                ELSE IF expected = << >>
                THEN Get(d.Data, "networkPolicies") = JNull
                ELSE /\ Get(d.Data, "networkPolicies.#")
                          = JNum(Len(expected))
                     /\ Get(d.Data, "networkPolicies.#.name")
                          = JArr([j \in 1..Len(expected) |->
                                     JStr(expected[j].Name)])
                     /\ Get(d.Data, "networkPolicies.#.namespace")
                          = JArr([j \in 1..Len(expected) |->
                                     JStr(String(Get(d.Data, "name")))])

\* C26 witness: a run marshalled a namespace with two policies, the
\* snapshot holding a policy of another namespace between them, and a pod.
C26_Witness ==
    /\ Evaluated
    /\ \E i \in 1..Len(docs) :
          /\ Kind(docs[i].Resource) = "Namespace"
          /\ Get(docs[i].Data, "networkPolicies.#") = JNum(2)
    /\ \E i \in 1..Len(docs) : Kind(docs[i].Resource) = "Pod"
    /\ Len(info.NetworkPolicies) = 3

\* The snapshot without the resources json.Marshal fails on.
Serializable(snapshot) ==
    [snapshot EXCEPT
        !.Pods = SelectSeq(@, LAMBDA r : ~r.MarshalErr),
        !.Services = SelectSeq(@, LAMBDA r : ~r.MarshalErr),
        !.RBAC = [ClusterRoles |-> SelectSeq(@.ClusterRoles,
                                             LAMBDA r : ~r.MarshalErr),
                  Roles |-> SelectSeq(@.Roles, LAMBDA r : ~r.MarshalErr)],
        !.Namespaces = SelectSeq(@, LAMBDA r : ~r.MarshalErr)]

\* The identifiers of the resources of a snapshot Marshal fails on.
Unserializable(snapshot) ==
    Identifiers(snapshot) \ Identifiers(Serializable(snapshot))

\* C27: a resource that fails to serialize is passed over without an
\* error: in a run that returned no error it has no finding and no
\* document, and the findings are those of the snapshot without it, the
\* resources before and after it evaluated against all rules in order.
C27_UnserializableSkipped ==
    (pc = "idle" /\ log # << >>) =>
        LET run == log[Len(log)]
        IN  Clean(run) =>
                /\ \A i \in 1..Len(run.findings) :
                      run.findings[i].Resource \notin Unserializable(run.info)
                /\ \A i \in 1..Len(docs) :
                      docs[i].Resource \notin Unserializable(run.info)
                /\ run.findings = EvaluateOn(run.store, Serializable(run.info))

\* C27 witness: a run returned findings on a pod before and on a pod after
\* a pod that failed to serialize.
C27_Witness ==
    /\ pc = "idle" /\ log # << >> /\ Clean(log[Len(log)])
    /\ LET run == log[Len(log)]
           pods == run.info.Pods
       IN  \E i, j, k \in 1..Len(pods) :
              /\ i < j /\ j < k /\ pods[j].MarshalErr
              /\ \E f \in Elements(run.findings) : f.Resource = PodName(pods[i])
              /\ \E f \in Elements(run.findings) : f.Resource = PodName(pods[k])

\* C28: a run leaves the rule store as it is: no step of runOnce, passed
\* or failed, changes a stored rule or the id counter, and no step after
\* the collection changes the snapshot.
C28_RunLeavesStore ==
    [][pc' # pc => /\ store' = store
                   /\ nextID' = nextID
                   /\ pc # "idle" => info' = info]_vars

\* C28 witness: a run that returned findings and a run that failed have
\* completed, and the store is the one both started on.
C28_Witness ==
    /\ Len(log) = 2 /\ pc = "idle"
    /\ Clean(log[1]) /\ log[1].findings # << >>
    /\ log[2].err # "" /\ ~log[2].dirty
    /\ store = log[1].store /\ store = log[2].store

\* C30: in every result given to outputResult the summary's count is the
\* number of findings of the result: both are the evaluator's when the
\* evaluation returned no error, both are zero when it returned one, and
\* the run after a failed one gives its result as any other.
C30_SummaryCountsFindings ==
    /\ output.SummarySecurityFindings = Len(output.SecurityFindings)
    /\ (pc = "idle" /\ log # << >>) =>
          IF log[Len(log)].err = ""
          THEN output.SecurityFindings = log[Len(log)].findings
          ELSE output = NoOutput

\* C30 witness: after a run whose evaluation failed, the next run gave a
\* result with findings to outputResult.
C30_Witness ==
    /\ Len(log) = 2 /\ pc = "idle"
    /\ log[1].err # "" /\ log[2].err = ""
    /\ output.SummarySecurityFindings > 0

\* The stored rows of a name, without their ids.
Named(rows, name) ==
    { [rows[i] EXCEPT !.ID = 0] : i \in { j \in 1..Len(rows) : rows[j].Name = name } }

\* The place in the file of the rule the import's error names.
FailedAt(file, err) ==
    { k \in 1..Len(file) : err \in { "failed to add rule '" \o file[k].Name \o "'",
                                     "failed to update rule '" \o file[k].Name \o "'" } }

\* C29: an import that fails at the k-th rule of its file returns the
\* error of that rule; the rules before it are stored as the file gives
\* them, and the k-th rule and the rules behind it are stored, or not, as
\* they were before the import.
C29_ImportStopsAtFailure ==
    [][\A file \in ImportFiles :
          (ImportRules(file) /\ lastErr' # "") =>
             /\ FailedAt(file, lastErr') # {}
             /\ \A k \in FailedAt(file, lastErr') :
                   /\ \A j \in 1..(k - 1) :
                         Named(store', file[j].Name) = { [file[j] EXCEPT !.ID = 0] }
                   /\ \A j \in k..Len(file) :
                         Named(store', file[j].Name) = Named(store, file[j].Name)]_vars

\* C29 witness: an import failed at its second rule, a disabled rule's
\* name; the first rule of the file, which no other command adds, is
\* stored and the third is not.
C29_Witness ==
    /\ lastCmd = "import"
    /\ lastErr = "failed to add rule '" \o defaultRules[3].Name \o "'"
    /\ Named(store, NewRule.Name) = { NewRule }
    /\ Named(store, customRules[1].Name) = {}
    /\ Named(store, customRules[2].Name) = {}

=============================================================================
